---- MODULE Spec2Model ----
(***************************************************************************)
(* Balti-AI voice translator (src/main.py): the AudioRecorder capture      *)
(* session, GeminiService.translate and the /api/record and /api/config    *)
(* handlers, as a state machine.                                           *)
(*                                                                         *)
(* Specification Spec runs every handler (a request handler, one           *)
(* invocation of the frame callback) as one atomic action.  RecSpec runs   *)
(* start(), stop() and _callback statement by statement, the callbacks on  *)
(* the backend's threads beside one control thread.  TrSpec runs two       *)
(* overlapping stop requests, translate() step by step, beside begin(),    *)
(* frame deliveries and configuration updates.                             *)
(***************************************************************************)
EXTENDS Integers, Sequences, FiniteSets, TLC

\* ------------------------------------------------------------------ bounds
\* frames the capture backend delivers between two begin() calls
MaxFrames == 2
\* hardware input streams the backend can hand out over a run
MaxStreams == 2

\* ----------------------------------------------------------- JSON / values
\* A Python value as json.loads and jsonify see it.  Texts are sequences of
\* atoms (words); a dict is a function from key texts to values.
NoDict == [k \in {} |-> 0]
StrVal(s) == [kind |-> "str", s |-> s, d |-> NoDict]
NumVal == [kind |-> "num", s |-> <<>>, d |-> NoDict]
ListVal == [kind |-> "list", s |-> <<>>, d |-> NoDict]
DictVal(d) == [kind |-> "dict", s |-> <<>>, d |-> d]
\* the value handle_record returns when Flask raises past the handler
Raised == [kind |-> "exception", s |-> <<>>, d |-> NoDict]

ErrorResult(msg) ==
    DictVal((<<"balti">> :> StrVal(<<"Error">>)) @@ (<<"english">> :> StrVal(<<msg>>)))
KeyMissing == ErrorResult("API Key Missing")
TranslationFailed == ErrorResult("Translation Failed")
NoAudio == ErrorResult("No audio captured")
Started == DictVal(<<"status">> :> StrVal(<<"started">>))

\* A reply text is a sequence of tokens.  t is one of "fencejson" (a code
\* fence followed by json), "fence" (a bare code fence), "ws", "lb" and "rb"
\* (braces), "lbk" and "rbk" (brackets), "colon", "comma", "num", "word"
\* (prose) and "str" (a quoted string whose content is s).
Tok(t) == [t |-> t, s |-> <<>>]
StrTok(s) == [t |-> "str", s |-> s]

RECURSIVE DropAtom(_, _)
DropAtom(s, a) ==
    IF s = <<>> THEN <<>>
    ELSE IF Head(s) = a THEN DropAtom(Tail(s), a)
    ELSE <<Head(s)>> \o DropAtom(Tail(s), a)

\* str.replace with an empty replacement: every occurrence goes, inside
\* quoted strings too
RECURSIVE Replace(_, _, _)
Replace(text, t, a) ==
    IF text = <<>> THEN <<>>
    ELSE LET h == Head(text) IN
         IF h.t = t THEN Replace(Tail(text), t, a)
         ELSE <<[h EXCEPT !.s = DropAtom(h.s, a)]>> \o Replace(Tail(text), t, a)

RECURSIVE LStrip(_)
LStrip(text) ==
    IF text # <<>> /\ Head(text).t = "ws" THEN LStrip(Tail(text)) ELSE text
RECURSIVE RStrip(_)
RStrip(text) ==
    IF text # <<>> /\ text[Len(text)].t = "ws"
    THEN RStrip(SubSeq(text, 1, Len(text) - 1)) ELSE text
Strip(text) == RStrip(LStrip(text))

\* the fence-stripping of the reply: both replace calls, then strip; inside a
\* string the atoms "FENCEJSON" and "FENCE" stand for the two fence markers
StripFences(text) == Strip(Replace(Replace(text, "fencejson", "FENCEJSON"), "fence", "FENCE"))

NotWs(tok) == tok.t # "ws"
IsScalar(tok) == tok.t \in {"str", "num"}
ScalarVal(tok) == IF tok.t = "str" THEN StrVal(tok.s) ELSE NumVal

\* members of an object: str colon scalar (comma str colon scalar)*
MembersOk(m) ==
    /\ Len(m) % 4 = 3
    /\ \A i \in 1..Len(m) :
         CASE i % 4 = 1 -> m[i].t = "str"
           [] i % 4 = 2 -> m[i].t = "colon"
           [] i % 4 = 3 -> IsScalar(m[i])
           [] OTHER     -> m[i].t = "comma"
\* a later duplicate key wins, as in a Python dict
RECURSIVE MembersDict(_)
MembersDict(m) ==
    IF Len(m) < 3 THEN NoDict
    ELSE LET n == Len(m)
             rest == IF n > 3 THEN SubSeq(m, 1, n - 4) ELSE <<>>
         IN (m[n - 2].s :> ScalarVal(m[n])) @@ MembersDict(rest)
\* elements of an array: scalar (comma scalar)*
ElementsOk(e) ==
    /\ Len(e) % 2 = 1
    /\ \A i \in 1..Len(e) : IF i % 2 = 1 THEN IsScalar(e[i]) ELSE e[i].t = "comma"

\* json.loads on a flat JSON document (scalars, arrays and objects of
\* scalars); ok = FALSE is json.JSONDecodeError
JsonLoads(text) ==
    LET toks == SelectSeq(text, NotWs)
        n == Len(toks)
        inner == IF n > 2 THEN SubSeq(toks, 2, n - 1) ELSE <<>>
        bad == [ok |-> FALSE, val |-> Raised]
    IN IF n = 0 THEN bad
       ELSE IF n = 1
            THEN IF IsScalar(toks[1]) THEN [ok |-> TRUE, val |-> ScalarVal(toks[1])] ELSE bad
       ELSE IF toks[1].t = "lb" /\ toks[n].t = "rb"
            THEN IF inner = <<>> THEN [ok |-> TRUE, val |-> DictVal(NoDict)]
                 ELSE IF MembersOk(inner)
                      THEN [ok |-> TRUE, val |-> DictVal(MembersDict(inner))]
                      ELSE bad
       ELSE IF toks[1].t = "lbk" /\ toks[n].t = "rbk"
            THEN IF inner = <<>> \/ ElementsOk(inner)
                 THEN [ok |-> TRUE, val |-> ListVal] ELSE bad
       ELSE bad

\* ------------------------------------------------------------------- inputs
\* Frames the backend delivers: amplitudes in halves of full scale, so 2 is
\* 1.0 and -1 is -0.5; the two frames differ in size and content.
Frames == {<<2>>, <<-1, 1>>}

\* Replies of the model (response.text)
ObjBoth == <<Tok("lb"), StrTok(<<"balti">>), Tok("colon"), StrTok(<<"kho">>), Tok("comma"),
             StrTok(<<"english">>), Tok("colon"), StrTok(<<"this">>), Tok("rb")>>
ObjOne == <<Tok("lb"), StrTok(<<"balti">>), Tok("colon"), StrTok(<<"kho">>), Tok("rb")>>
\* a two-field object whose translation holds a code fence
ObjFenced == <<Tok("lb"), StrTok(<<"balti">>), Tok("colon"), StrTok(<<"kho">>), Tok("comma"),
               StrTok(<<"english">>), Tok("colon"), StrTok(<<"use", "FENCE", "this">>),
               Tok("rb")>>
\* a payload as the model wraps it in code-fence markers
Wrap(payload) == <<Tok("fencejson"), Tok("ws")>> \o payload \o <<Tok("ws"), Tok("fence")>>
Replies ==
    { ObjBoth,
      Wrap(ObjBoth),
      Wrap(ObjFenced),
      <<Tok("word"), Tok("ws")>> \o ObjBoth,
      ObjOne,
      <<Tok("lbk"), StrTok(<<"kho">>), Tok("rbk")>>,
      <<StrTok(<<"kho">>)>>,
      <<>> }

\* Configurations a POST /api/config can install (request.json) or
\* ConfigManager.load can return
DefaultConfig ==
    [dictionary |-> <<>>, tone |-> "Casual", context |-> "", forbiddenWords |-> <<>>]
DictConfig ==
    [dictionary |-> <<[balti |-> "kho", english |-> "this"],
                      [balti |-> "chi", english |-> "what"]>>,
     tone |-> "Formal", context |-> "Market", forbiddenWords |-> <<"damn", "heck">>]
\* an entry without its english key, and no other key
BrokenConfig == [dictionary |-> <<[balti |-> "kho"]>>]
Configs == {DefaultConfig, DictConfig, BrokenConfig}

\* ------------------------------------------------------------ PromptBuilder
\* dict.get(key, default)
Get(d, key, default) == IF key \in DOMAIN d THEN d[key] ELSE default

\* sep.join(parts), parts a sequence of texts
RECURSIVE Join(_, _)
Join(parts, sep) ==
    IF parts = <<>> THEN <<>>
    ELSE IF Len(parts) = 1 THEN parts[1]
    ELSE parts[1] \o <<sep>> \o Join(Tail(parts), sep)

DictLine(d) == <<"- ", d.balti, " -> ", d.english>>
DictLinesReversed(cfg) ==
    LET dict == Get(cfg, "dictionary", <<>>) IN
    [i \in 1..Len(dict) |-> DictLine(dict[Len(dict) + 1 - i])]
DictLines(cfg) ==
    LET dict == Get(cfg, "dictionary", <<>>) IN [i \in 1..Len(dict) |-> DictLine(dict[i])]
DictStr(cfg) == Join(DictLines(cfg), "\n")
ForbiddenStr(cfg) ==
    LET w == Get(cfg, "forbiddenWords", <<>>) IN Join([i \in 1..Len(w) |-> <<w[i]>>], ", ")
\* d['balti'] or d['english'] raises KeyError
PromptRaises(cfg) ==
    LET dict == Get(cfg, "dictionary", <<>>) IN
    \E i \in 1..Len(dict) : ~({"balti", "english"} \subseteq DOMAIN dict[i])
\* the lines of a text: str.split on the newline, none for the empty text
RECURSIVE SplitLines(_)
SplitLines(text) ==
    IF text = <<>> THEN <<>>
    ELSE LET nl == {i \in 1..Len(text) : text[i] = "\n"} IN
         IF nl = {} THEN <<text>>
         ELSE LET i == CHOOSE j \in nl : \A k \in nl : j <= k IN
              <<SubSeq(text, 1, i - 1)>> \o
              (IF i = Len(text) THEN <<<<>>>> ELSE SplitLines(SubSeq(text, i + 1, Len(text))))

\* the f-string: the fixed text with its four holes
NoPrompt == [context |-> "", tone |-> "", blocked |-> <<>>, dictionary |-> <<>>]
Prompt(cfg) ==
    [context |-> Get(cfg, "context", "General"), tone |-> Get(cfg, "tone", "Casual"),
     blocked |-> ForbiddenStr(cfg), dictionary |-> DictStr(cfg)]

\* ------------------------------------------------------------ audio encoding
SampleRate == 16000
Int16Scale == 32767
\* astype(np.int16) truncates toward zero
Trunc(n, d) == IF n >= 0 THEN n \div d ELSE -((-n) \div d)
\* (audio_data * 32767).astype(np.int16), amplitudes in halves
Encode(audio) == [i \in 1..Len(audio) |-> Trunc(audio[i] * Int16Scale, 2)]

\* np.concatenate(self.audio_data, axis=0); np.array([]) for no frames
RECURSIVE Concatenate(_)
Concatenate(frames) ==
    IF frames = <<>> THEN <<>> ELSE Head(frames) \o Concatenate(Tail(frames))

NoFile == [exists |-> FALSE, rate |-> 0, data |-> <<>>]
WavFile(rate, data) == [exists |-> TRUE, rate |-> rate, data |-> data]

\* -------------------------------------------------------------------- state
VARIABLES
    model,       \* gemini.model is set (a credential was configured)
    config,      \* the global config
    recording,   \* recorder.recording
    audio_data,  \* recorder.audio_data, a sequence of frames
    stream,      \* recorder.stream: 0 is None, else a stream of the backend
    streams,     \* the backend's streams: "unused", "open", "active", "closed"
    tempfile,    \* temp_audio.wav on disk
    delivered,   \* history: the frames delivered since the last begin()
    last,        \* history: the last /api/record request and what it did
    ctl,         \* RecSpec: where the control thread is in start() or stop()
    cb,          \* RecSpec: per stream, the _callback invocation in flight
    req          \* TrSpec: per request thread, the translate() call in flight

vars == <<model, config, recording, audio_data, stream, streams, tempfile, delivered, last,
          ctl, cb, req>>
\* the state of the step-wise specifications
conc == <<ctl, cb, req>>

StreamIds == 1..MaxStreams
IsOpen(st) == st \in {"open", "active"}
\* a stream object nobody holds any more can be handed out again
FreeIds == {s \in StreamIds : streams[s] = "unused" \/ (streams[s] = "closed" /\ stream # s)}
FreshStream == CHOOSE s \in FreeIds : \A o \in FreeIds : s <= o

\* what one translate() call did; raisedAt is the step of the try block that
\* raised ("none": no step did), prompt the prompt it built, reply the text
\* of the response generate_content returned
NoTrace ==
    [called |-> FALSE, staged |-> FALSE, uploaded |-> FALSE, generated |-> FALSE,
     delTried |-> FALSE, rmTried |-> FALSE, raisedAt |-> "none", prompt |-> NoPrompt,
     reply |-> <<>>]
NoResponse == [kind |-> "none", s |-> <<>>, d |-> NoDict]
NoRequest ==
    [action |-> "none", acq |-> "na", response |-> NoResponse, audio |-> <<>>, t |-> NoTrace]

\* The control thread: pc is "idle" or the line of start() or stop() it runs
\* next; restart tells whether the last start() was called while recording.
ControlIdle == [pc |-> "idle", restart |-> FALSE]

\* One _callback invocation: pc is "idle" (none in flight), "checked" (past
\* if self.recording), "loaded" (holds the list self.audio_data named) or
\* "detached" (the list it holds is no longer self.audio_data); late tells
\* whether the frame was delivered after a stop() had begun.
NoCallback == [pc |-> "idle", frame |-> <<>>, late |-> FALSE]

\* the request threads of the server
Threads == {"r1", "r2"}
\* One translate() call: pc is "idle" or the step it runs next, audio and cfg
\* are its arguments, prompt the prompt it built.
NoCall == [pc |-> "idle", audio |-> <<>>, cfg |-> NoDict, prompt |-> NoPrompt]

\* ------------------------------------------------------ GeminiService.translate
\* What the environment does to one call: fail is the step that raises
\* ("none": no step does), reply is response.text, del and rm tell whether
\* audio_file.delete() and os.remove(filename) succeed.
Envs ==
    {[fail |-> f, reply |-> <<>>, del |-> TRUE, rm |-> TRUE] :
        f \in {"open", "write", "upload", "generate", "text"}}
    \cup {[fail |-> "none", reply |-> t, del |-> TRUE, rm |-> TRUE] : t \in Replies}
    \cup {[fail |-> "none", reply |-> ObjBoth, del |-> d, rm |-> r] :
            d \in BOOLEAN, r \in BOOLEAN}
    \cup {[fail |-> "text", reply |-> <<>>, del |-> d, rm |-> r] :
            d \in BOOLEAN, r \in BOOLEAN}
\* the environment of a call that never reaches its try block
QuietEnv == [fail |-> "none", reply |-> <<>>, del |-> TRUE, rm |-> TRUE]

\* the reply as translate() parses it: fence-stripping, then json.loads
ParsedReply == [t \in Replies |-> JsonLoads(StripFences(t))]

\* the bare except around audio_file.delete() and os.remove(filename): what
\* they raise goes no further
CleanupRaises(env) == ~env.del \/ ~env.rm
CleanupEscapes(env) == FALSE

\* `except Exception` around every step of the try block
CaughtAfterUpload(step) == step \notin {"open", "write", "upload"}
Caught(step) == TRUE

Failure(step, file, t) ==
    [result |-> IF Caught(step) THEN TranslationFailed ELSE Raised, file |-> file,
     t |-> [t EXCEPT !.raisedAt = step]]

TranslateBody(audio, rate, cfg, tf, env) ==
    LET t0 == [NoTrace EXCEPT !.called = TRUE]
        t1 == [t0 EXCEPT !.staged = TRUE]
        t2 == [t1 EXCEPT !.uploaded = TRUE]
        t3 == [t2 EXCEPT !.generated = TRUE, !.prompt = Prompt(cfg)]
        \* os.remove runs only when audio_file.delete() did not raise
        t4 == [t3 EXCEPT !.delTried = TRUE, !.rmTried = env.del, !.reply = env.reply]
        f1 == WavFile(rate, Encode(audio))
        f4 == IF env.del /\ env.rm THEN NoFile ELSE f1
        parsed == ParsedReply[env.reply]
    IN IF env.fail = "open" THEN Failure("open", tf, t0)
       ELSE IF env.fail = "write" THEN Failure("write", WavFile(rate, <<>>), t1)
       ELSE IF env.fail = "upload" THEN Failure("upload", f1, t1)
       ELSE IF PromptRaises(cfg) THEN Failure("prompt", f1, t2)
       ELSE IF env.fail = "generate" THEN Failure("generate", f1, t3)
       ELSE IF CleanupEscapes(env) THEN Failure("cleanup", f4, t4)
       ELSE IF env.fail = "text" THEN Failure("text", f4, t4)
       ELSE IF ~parsed.ok THEN Failure("parse", f4, t4)
       ELSE [result |-> parsed.val, file |-> f4, t |-> t4]

TranslateUnguarded(m, audio, rate, cfg, tf, env) == TranslateBody(audio, rate, cfg, tf, env)
Translate(m, audio, rate, cfg, tf, env) ==
    IF ~m
    THEN [result |-> KeyMissing, file |-> tf, t |-> [NoTrace EXCEPT !.called = TRUE]]
    ELSE TranslateBody(audio, rate, cfg, tf, env)

\* ------------------------------------------------------------- AudioRecorder
\* start(): self.audio_data = []
StartKeepsAudio(ad) == ad
StartAudioData(ad) == <<>>

\* start(): recording once the try block is left; acq is "ok", "ctor"
\* (sd.InputStream raises) or "start" (stream.start raises)
StartStaysRecording(acq) == TRUE
StartRecording(acq) == acq = "ok"

\* _callback: if self.recording
CallbackUnchecked(rec) == TRUE
CallbackChecks(rec) == rec
CallbackAudioData(rec, ad, frame) == IF CallbackChecks(rec) THEN Append(ad, frame) ELSE ad

\* stop(): stream.stop() and stream.close() on self.stream; on a stream that
\* is closed already the errors are ignored
StopStreams(str, sts) ==
    IF str # 0 THEN [sts EXCEPT ![str] = "closed"] ELSE sts
StopAudio(ad) == Concatenate(ad)

\* ------------------------------------------------------------------ actions
Init ==
    /\ model \in BOOLEAN
    /\ config \in Configs
    /\ recording = FALSE
    /\ audio_data = <<>>
    /\ stream = 0
    /\ streams = [s \in StreamIds |-> "unused"]
    /\ tempfile = NoFile
    /\ delivered = <<>>
    /\ last = NoRequest
    /\ ctl = ControlIdle
    /\ cb = [s \in StreamIds |-> NoCallback]
    /\ req = [r \in Threads |-> NoCall]

\* POST /api/record {action: start}
StartResponse(acq) == Started
HandleRecordStartWith(acq) ==
    /\ acq = "ctor" \/ FreeIds # {}
    /\ recording' = StartRecording(acq)
    /\ audio_data' = StartAudioData(audio_data)
    /\ stream' = IF acq = "ctor" THEN stream ELSE FreshStream
    /\ streams' = IF acq = "ctor" THEN streams
                  ELSE [streams EXCEPT ![FreshStream] = IF acq = "ok" THEN "active" ELSE "open"]
    /\ delivered' = <<>>
    /\ last' = [action |-> "start", acq |-> acq, response |-> StartResponse(acq),
                audio |-> <<>>, t |-> NoTrace]
    /\ UNCHANGED <<model, config, tempfile>>
HandleRecordStart ==
    /\ \E acq \in {"ok", "ctor", "start"} : HandleRecordStartWith(acq)
    /\ UNCHANGED conc

\* the backend delivers one frame on an active stream
CallbackWith(s, frame) ==
    /\ streams[s] = "active"
    /\ Len(delivered) < MaxFrames
    /\ audio_data' = CallbackAudioData(recording, audio_data, frame)
    /\ delivered' = Append(delivered, frame)
    /\ UNCHANGED <<model, config, recording, stream, streams, tempfile, last>>
    /\ UNCHANGED conc
Callback == \E s \in StreamIds, frame \in Frames : CallbackWith(s, frame)

\* POST /api/record {action: stop}
HandleRecordStopWith(env) ==
    LET audio == StopAudio(audio_data)
        tr == Translate(model, audio, SampleRate, config, tempfile, env)
    IN /\ recording' = FALSE
       /\ streams' = StopStreams(stream, streams)
       /\ IF Len(audio) = 0
          THEN /\ last' = [action |-> "stop", acq |-> "na", response |-> NoAudio,
                           audio |-> audio, t |-> NoTrace]
               /\ tempfile' = tempfile
          ELSE /\ last' = [action |-> "stop", acq |-> "na", response |-> tr.result,
                           audio |-> audio, t |-> tr.t]
               /\ tempfile' = tr.file
       /\ UNCHANGED <<model, config, audio_data, stream, delivered>>
\* the environment acts only on a call that gets past translate()'s guard
HandleRecordStop ==
    /\ \E env \in IF model /\ audio_data # <<>> THEN Envs ELSE {QuietEnv} :
          HandleRecordStopWith(env)
    /\ UNCHANGED conc

\* POST /api/config
HandleConfigWith(c) ==
    /\ config' = c
    /\ UNCHANGED <<model, recording, audio_data, stream, streams, tempfile, delivered, last>>
    /\ UNCHANGED conc
HandleConfig == \E c \in Configs : HandleConfigWith(c)

\* a step of HandleRecordStop, told from the others by what it leaves:
\* Callback extends delivered, HandleConfig changes config alone and
\* HandleRecordStart puts a start in last
StopStep ==
    /\ last'.action = "stop" /\ recording' = FALSE
    /\ config' = config /\ delivered' = delivered /\ audio_data' = audio_data

Next == HandleRecordStart \/ Callback \/ HandleRecordStop \/ HandleConfig

Spec == Init /\ [][Next]_vars

\* ------------------------------------------------ RecSpec: the recorder's steps
\* the frame the backend delivers in the step-wise specifications
StepFrame == <<2>>

\* stop() has begun: self.recording = False is written and no start() has
\* been called since
StopBegun ==
    \/ ctl.pc \in {"stop129", "stop133"}
    \/ ctl.pc = "idle" /\ last.action = "stop"

\* start(): self.recording = True
Start117 ==
    /\ ctl.pc = "idle"
    /\ recording' = TRUE
    /\ ctl' = [pc |-> "start118", restart |-> recording]
    /\ UNCHANGED <<model, config, audio_data, stream, streams, tempfile, delivered, last,
                   cb, req>>

\* start(): self.audio_data = [], a new list; a callback that holds the old
\* list appends to the old list
Start118 ==
    /\ ctl.pc = "start118"
    /\ audio_data' = StartAudioData(audio_data)
    /\ delivered' = <<>>
    /\ cb' = [s \in StreamIds |->
                IF cb[s].pc = "loaded" THEN [cb[s] EXCEPT !.pc = "detached"] ELSE cb[s]]
    /\ ctl' = [ctl EXCEPT !.pc = "start120"]
    /\ UNCHANGED <<model, config, recording, stream, streams, tempfile, last, req>>

\* start(): the try block, sd.InputStream(...) and stream.start()
Start120 ==
    /\ ctl.pc = "start120"
    /\ \E acq \in {"ok", "ctor", "start"} :
        /\ acq = "ctor" \/ FreeIds # {}
        /\ recording' = IF StartRecording(acq) THEN recording ELSE FALSE
        /\ stream' = IF acq = "ctor" THEN stream ELSE FreshStream
        /\ streams' = IF acq = "ctor" THEN streams
                      ELSE [streams EXCEPT ![FreshStream] = IF acq = "ok" THEN "active" ELSE "open"]
        /\ last' = [action |-> "start", acq |-> acq, response |-> StartResponse(acq),
                    audio |-> <<>>, t |-> NoTrace]
    /\ ctl' = [ctl EXCEPT !.pc = "idle"]
    /\ UNCHANGED <<model, config, audio_data, tempfile, delivered, cb, req>>

\* stop(): self.recording = False
Stop128 ==
    /\ ctl.pc = "idle"
    /\ recording' = FALSE
    /\ ctl' = [ctl EXCEPT !.pc = "stop129"]
    /\ UNCHANGED <<model, config, audio_data, stream, streams, tempfile, delivered, last,
                   cb, req>>

\* stop(): stream.stop() returns once the callback running on that stream
\* has returned; then stream.close()
Stop129 ==
    /\ ctl.pc = "stop129"
    /\ IF stream = 0 THEN TRUE ELSE cb[stream].pc = "idle"
    /\ streams' = StopStreams(stream, streams)
    /\ ctl' = [ctl EXCEPT !.pc = "stop133"]
    /\ UNCHANGED <<model, config, recording, audio_data, stream, tempfile, delivered, last,
                   cb, req>>

\* stop(): the return of np.concatenate(self.audio_data), then the rest of
\* handle_record
RecEnvs == {e \in Envs : e.del /\ e.rm /\ e.fail = "none" /\ e.reply = ObjBoth}
Stop133 ==
    /\ ctl.pc = "stop133"
    /\ \E env \in IF model /\ audio_data # <<>> THEN RecEnvs ELSE {QuietEnv} :
          HandleRecordStopWith(env)
    /\ ctl' = [ctl EXCEPT !.pc = "idle"]
    /\ UNCHANGED <<cb, req>>

\* _callback is called with a frame: if self.recording
CallbackCheck(s) ==
    \E frame \in {StepFrame} :
        /\ streams[s] = "active" /\ cb[s].pc = "idle"
        /\ Len(delivered) < MaxFrames
        /\ delivered' = Append(delivered, frame)
        /\ cb' = [cb EXCEPT ![s] =
                    IF CallbackChecks(recording)
                    THEN [pc |-> "checked", frame |-> frame, late |-> StopBegun]
                    ELSE NoCallback]
        /\ UNCHANGED <<model, config, recording, audio_data, stream, streams, tempfile,
                       last, ctl, req>>

\* _callback: self.audio_data is evaluated
CallbackLoad(s) ==
    /\ cb[s].pc = "checked"
    /\ cb' = [cb EXCEPT ![s].pc = "loaded"]
    /\ UNCHANGED <<model, config, recording, audio_data, stream, streams, tempfile,
                   delivered, last, ctl, req>>

\* _callback: .append(indata.copy()) on the list it holds
CallbackAppend(s) ==
    /\ cb[s].pc \in {"loaded", "detached"}
    /\ audio_data' = IF cb[s].pc = "loaded" THEN Append(audio_data, cb[s].frame)
                     ELSE audio_data
    /\ cb' = [cb EXCEPT ![s] = NoCallback]
    /\ UNCHANGED <<model, config, recording, stream, streams, tempfile, delivered, last,
                   ctl, req>>

RecNext ==
    \/ Start117 \/ Start118 \/ Start120
    \/ Stop128 \/ Stop129 \/ Stop133
    \/ \E s \in StreamIds : CallbackCheck(s) \/ CallbackLoad(s) \/ CallbackAppend(s)

\* a credential is configured and the configuration is the default one
RecInit == Init /\ model /\ config = DefaultConfig
RecSpec == RecInit /\ [][RecNext]_vars

\* ------------------------------------------- TrSpec: overlapping translations
\* the argument a translate() call reads its configuration from, beside the
\* global config
ConfigReadGlobal(local, global) == global
ConfigRead(local, global) == local

\* the array a translate() call encodes: the one stop() returned, a copy
\* made by np.concatenate, beside the recorder's frames
SampleAliased(sample, ad) == Concatenate(ad)
SampleOf(sample, ad) == sample

TrEnvs == {e \in Envs : e.fail \in {"none", "generate"} /\ e.reply \in {<<>>, ObjBoth}}

\* POST /api/record {action: stop} up to the call of translate(): stop(),
\* the check of len(audio), the binding of the arguments and the guard on
\* self.model; a request that is answered at once leaves no call in flight
StopEnter(r) ==
    LET audio == StopAudio(audio_data)
    IN /\ req[r].pc = "idle"
       /\ recording' = FALSE
       /\ streams' = StopStreams(stream, streams)
       /\ req' = IF Len(audio) = 0 \/ ~model THEN req
                 ELSE [req EXCEPT ![r] = [pc |-> "write", audio |-> audio, cfg |-> config,
                                          prompt |-> NoPrompt]]
       /\ UNCHANGED <<model, config, audio_data, stream, tempfile, delivered, last, ctl, cb>>

\* translate(): the sample is encoded and written to temp_audio.wav
TrWrite(r) ==
    /\ req[r].pc = "write"
    /\ tempfile' = WavFile(SampleRate, Encode(SampleOf(req[r].audio, audio_data)))
    /\ req' = [req EXCEPT ![r].pc = "upload"]
    /\ UNCHANGED <<model, config, recording, audio_data, stream, streams, delivered, last,
                   ctl, cb>>

\* translate(): genai.upload_file(path=filename) reads the file that is on
\* disk; without one it raises, and the call returns "Translation Failed"
TrUpload(r) ==
    /\ req[r].pc = "upload"
    /\ req' = [req EXCEPT ![r] = IF tempfile.exists THEN [req[r] EXCEPT !.pc = "prompt"]
                                 ELSE NoCall]
    /\ UNCHANGED <<model, config, recording, audio_data, stream, streams, tempfile,
                   delivered, last, ctl, cb>>

\* translate(): the prompt is built from the configuration, and the model
\* is called
TrPrompt(r) ==
    LET cfg == ConfigRead(req[r].cfg, config)
    IN /\ req[r].pc = "prompt"
       /\ req' = [req EXCEPT ![r] = IF PromptRaises(cfg) THEN NoCall
                                    ELSE [req[r] EXCEPT !.pc = "generate",
                                                        !.prompt = Prompt(cfg)]]
       /\ UNCHANGED <<model, config, recording, audio_data, stream, streams, tempfile,
                      delivered, last, ctl, cb>>

\* translate(): generate_content returns or raises; after a return the
\* cleanup, then the reply is parsed and the call returns
TrFinish(r) ==
    /\ req[r].pc = "generate"
    /\ \E env \in TrEnvs :
          tempfile' = IF env.fail = "none" /\ env.del /\ env.rm THEN NoFile ELSE tempfile
    /\ req' = [req EXCEPT ![r] = NoCall]
    /\ UNCHANGED <<model, config, recording, audio_data, stream, streams, delivered, last,
                   ctl, cb>>

TrStart == HandleRecordStartWith("ok") /\ UNCHANGED conc
TrCallback == \E s \in StreamIds : CallbackWith(s, StepFrame)

TrNext ==
    \/ TrStart \/ TrCallback \/ HandleConfig
    \/ \E r \in Threads : StopEnter(r) \/ TrWrite(r) \/ TrUpload(r) \/ TrPrompt(r) \/ TrFinish(r)

\* a credential is configured: every translate() call gets past its guard
TrInit == Init /\ model
TrSpec == TrInit /\ [][TrNext]_vars

\* ------------------------------------------------------------------- claims
\* C1: for every begin(), N frame deliveries, end() sequence, the sample
\* stop() returns is the concatenation, in delivery order, of the frames
\* delivered between that begin() and that end().
C1_SampleIsDeliveredFrames ==
    [][(HandleRecordStop /\ last.action = "start")
        => last'.audio = Concatenate(delivered)]_vars

\* C2: end() while the session is Idle returns the "No audio captured"
\* result and makes no model call.
C2_IdleEndIsEmpty ==
    [][(HandleRecordStop /\ ~recording)
        => (last'.response = NoAudio /\ ~last'.t.generated)]_vars

\* C3: begin() followed by end() with no frame delivered in between returns
\* the "No audio captured" result and translate() is not entered, so the
\* model is not invoked.
C3_EmptyCapture ==
    [][(last.action = "start" /\ delivered = <<>> /\ HandleRecordStop)
        => (last'.response = NoAudio /\ last'.t = NoTrace /\ tempfile' = tempfile)]_vars
C3_Witness ==
    /\ model /\ last.action = "stop" /\ last.response = NoAudio
    /\ stream # 0 /\ streams[stream] = "closed" /\ delivered = <<>>

\* C4: a begin() whose stream acquisition failed does not return the
\* acknowledgement a successful begin() returns.
C4_FailureReported ==
    (last.action = "start" /\ last.acq # "ok") => last.response # StartResponse("ok")

\* C5: when the stream acquisition fails, the session is Idle when start()
\* returns, and no further acquisition is made: no stream becomes active.
C5_FailedStartIsIdle ==
    [][\A acq \in {"ctor", "start"} :
         HandleRecordStartWith(acq)
         => (~recording' /\ \A s \in StreamIds : streams'[s] = "active" => streams[s] = "active")]_vars
C5_Witness ==
    /\ last.action = "start" /\ last.acq # "ok" /\ ~recording
    /\ \E s \in StreamIds : streams[s] = "active"

\* C6: once end() has returned, no stream opened by an earlier start() is
\* still open.
C6_StreamsClosedAfterEnd ==
    last.action = "stop" => \A s \in StreamIds : ~IsOpen(streams[s])

\* C7: translate() without a configured model returns "API Key Missing" and
\* neither creates the temporary file, nor uploads, nor calls the model.
C7_KeyMissing ==
    [][(~model /\ HandleRecordStop /\ last'.t.called)
        => /\ last'.response = KeyMissing
           /\ tempfile' = tempfile
           /\ ~last'.t.staged /\ ~last'.t.uploaded /\ ~last'.t.generated]_vars
C7_Witness ==
    ~model /\ last.action = "stop" /\ last.t.called /\ last.response = KeyMissing

\* C8: every translate() call that staged the temporary file attempts to
\* remove it, and to delete the remote copy it uploaded, before it returns.
C8_CleanupAlwaysAttempted ==
    last.t.staged => (last.t.rmTried /\ (last.t.uploaded => last.t.delTried))

\* C9: a reply that, after fence-stripping, is not valid JSON, or is JSON
\* other than an object with both string fields, yields "Translation Failed".
IsTwoFieldObject(v) ==
    /\ v.kind = "dict"
    /\ {<<"balti">>, <<"english">>} \subseteq DOMAIN v.d
    /\ v.d[<<"balti">>].kind = "str" /\ v.d[<<"english">>].kind = "str"
BadReply(text) ==
    LET p == JsonLoads(StripFences(text)) IN ~p.ok \/ ~IsTwoFieldObject(p.val)
C9_BadReplyFails ==
    [][\A env \in Envs :
         (/\ HandleRecordStopWith(env)
          /\ model /\ audio_data # <<>> /\ ~PromptRaises(config)
          /\ env.fail = "none" /\ BadReply(env.reply))
         => last'.response = TranslationFailed]_vars

\* C10: an exception raised while staging or uploading the audio, building
\* the prompt, calling the model or parsing the reply is caught in
\* translate() and becomes "Translation Failed"; none reaches the caller.
C10_ExceptionsCaught ==
    /\ last.response # Raised
    /\ (last.t.raisedAt # "none" => last.response = TranslationFailed)
C10_Witness ==
    /\ last.t.raisedAt = "upload" /\ last.response = TranslationFailed
    /\ last.t.staged /\ tempfile.exists

\* C11: a reply that is a valid two-field JSON object wrapped in code-fence
\* markers yields the result of parsing the unwrapped object, for every
\* such object.
Payloads == {ObjBoth, ObjFenced}
C11_FencedReplyParsed ==
    [][\A env \in Envs, p \in Payloads :
         (/\ model /\ audio_data # <<>> /\ ~PromptRaises(config)
          /\ env.fail = "none" /\ env.reply = Wrap(p)
          /\ HandleRecordStopWith(env))
         => last'.response = JsonLoads(p).val]_vars

\* C12: the custom-dictionary section of the prompt has no line for an empty
\* dictionary and otherwise one line per entry, in the dictionary's order,
\* each "- <source> -> <target>".
C12_DictionarySection ==
    [][(last'.action = "stop" /\ last'.t.generated /\ StopStep)
        => LET dict == Get(config, "dictionary", <<>>)
               lines == SplitLines(last'.t.prompt.dictionary)
           IN /\ Len(lines) = Len(dict)
              /\ \A i \in 1..Len(dict) :
                   lines[i] = <<"- ", dict[i].balti, " -> ", dict[i].english>>]_vars
C12_Witness ==
    /\ last.t.generated
    /\ SplitLines(last.t.prompt.dictionary)
         = <<<<"- ", "kho", " -> ", "this">>, <<"- ", "chi", " -> ", "what">>>>

\* C15: when audio_file.delete() or os.remove(filename) raises, the call
\* still returns the pair parsed from a valid reply.
C15_CleanupFailureSwallowed ==
    (/\ last.t.delTried /\ (~last.t.rmTried \/ tempfile.exists)
     /\ ParsedReply[last.t.reply].ok)
    => last.response = ParsedReply[last.t.reply].val
C15_Witness ==
    /\ last.t.delTried /\ ~last.t.rmTried /\ tempfile.exists
    /\ last.response = JsonLoads(ObjBoth).val

\* C17: at most one hardware input stream is open at any time.
C17_AtMostOneStream ==
    Cardinality({s \in StreamIds : IsOpen(streams[s])}) <= 1

\* C13: a frame the backend delivers after a stop() has begun is never
\* appended to the accumulated frames, whatever the interleaving of the
\* callback (state check, then append) with stop(): no callback invocation
\* that holds such a frame gets past the state check.
C13_LateFrameNotAppended ==
    \A s \in StreamIds : cb[s].pc # "idle" => ~cb[s].late
C13_Witness ==
    /\ ctl.pc = "stop129" /\ last.action = "start" /\ last.acq = "ok"
    /\ delivered # <<>> /\ audio_data = <<>>
    /\ \A s \in StreamIds : cb[s].pc = "idle"

\* C14: after a begin() called while the session is Recording, the sample
\* the next end() returns holds no frame whose delivery began before that
\* begin() reset the accumulated frames: it is made of frames delivered
\* since the reset.
RECURSIVE SubSeqs(_)
SubSeqs(seq) ==
    IF seq = <<>> THEN {<<>>}
    ELSE LET rest == SubSeqs(Tail(seq))
         IN rest \cup {<<Head(seq)>> \o x : x \in rest}
C14_RestartFromEmpty ==
    [][(/\ ctl.pc = "stop133" /\ ctl'.pc = "idle"
        /\ ctl.restart /\ last.action = "start")
        => last'.audio \in {Concatenate(x) : x \in SubSeqs(delivered)}]_vars

\* C16: the configuration one translation uses is a snapshot taken when
\* translate() is called: the call never changes the configuration, its own
\* copy stays what it was while the call is in flight, and the prompt is
\* built from that copy whatever POST /api/config stored in the meantime.
C16_ConfigSnapshot ==
    [][\A r \in Threads :
         /\ req'[r] # req[r] => config' = config
         /\ (req[r].pc # "idle" /\ req'[r].pc # "idle") => req'[r].cfg = req[r].cfg
         /\ (req[r].pc = "prompt" /\ req'[r].pc = "generate")
              => (~PromptRaises(req[r].cfg) /\ req'[r].prompt = Prompt(req[r].cfg))]_vars
C16_Witness ==
    \E r \in Threads :
        /\ req[r].pc = "generate" /\ req[r].cfg = DictConfig /\ config = DefaultConfig
        /\ req[r].prompt = Prompt(DictConfig)

\* C18: the sample end() handed to translate() is not changed by a begin()
\* or by frame deliveries while the call is in flight: the call's sample
\* stays what stop() returned, the file it writes holds that sample encoded,
\* and no step other than a translate() step touches the file.
C18_SampleUnaffected ==
    [][/\ req' = req => tempfile' = tempfile
       /\ \A r \in Threads :
            /\ (req[r].pc # "idle" /\ req'[r].pc # "idle") => req'[r].audio = req[r].audio
            /\ (req[r].pc = "write" /\ req'[r].pc = "upload")
                 => tempfile'.data = Encode(req[r].audio)]_vars
C18_Witness ==
    \E r \in Threads :
        /\ req[r].pc = "generate" /\ recording /\ audio_data # <<>>
        /\ Concatenate(audio_data) # req[r].audio

\* C19: when two translate() calls overlap, each uploads a file that holds
\* its own sample, and the cleanup of one never removes the file the other
\* has written and not yet uploaded.
C19_OwnArtifact ==
    [][\A r \in Threads :
         /\ (req[r].pc = "upload" /\ req'[r].pc = "prompt")
              => tempfile.data = Encode(req[r].audio)
         /\ (req[r].pc = "generate" /\ req'[r].pc = "idle")
              => \A q \in Threads \ {r} :
                   (req[q].pc = "upload" /\ tempfile.exists) => tempfile'.exists]_vars
====
